---- MODULE Spec2Model ----
(***************************************************************************)
(* Fill Rate Dashboard (src/app.py): a Streamlit script that is re-executed*)
(* top to bottom on every user interaction.  One run loads the uploaded    *)
(* table, cleans it, reads the sidebar widgets, filters, computes five     *)
(* KPIs, draws the charts, the breakdown table, the Excel download and the *)
(* PDF link.  The whole body sits in a try/except Exception.               *)
(***************************************************************************)
EXTENDS Integers, Sequences, FiniteSets, TLC

(* ------------------------------------------------------------------ *)
(* Bounds of the model                                                  *)
(* ------------------------------------------------------------------ *)
MaxRows == 2

(* ------------------------------------------------------------------ *)
(* State                                                                *)
(* ------------------------------------------------------------------ *)
VARIABLES
  uploaded_file,  \* the sheet of the uploaded file, or None
  pc,             \* position of the running script
  rerun,          \* TRUE once the script has run before in this session
  df,             \* the loaded and cleaned table
  selected,       \* what the sidebar widgets returned in this run
  filtered_df,
  kpis,
  df_bar,
  df_area,
  group_df,
  excel,          \* content of the download button
  page,           \* the elements rendered in this run, in order
  raised          \* the exception raised in this run, if any

vars ==
  <<uploaded_file, pc, rerun, df, selected, filtered_df, kpis, df_bar, df_area,
    group_df, excel, page, raised>>

data_vars == <<df, selected, filtered_df, kpis, df_bar, df_area, group_df, excel>>

(* ------------------------------------------------------------------ *)
(* Cells.  A cell is a number (n/d with d = 1 for the integers of the   *)
(* uploaded file), a text (sequence of characters), a date (day number),*)
(* +infinity, or the missing value (NaN for numbers, NaT for dates).    *)
(* ------------------------------------------------------------------ *)
NaN == [k |-> "nan", n |-> 0, d |-> 1, s |-> <<>>]
Inf == [k |-> "inf", n |-> 0, d |-> 1, s |-> <<>>]
Num(x) == [k |-> "num", n |-> x, d |-> 1, s |-> <<>>]
Str(t) == [k |-> "str", n |-> 0, d |-> 1, s |-> t]
Date(day) == [k |-> "date", n |-> day, d |-> 1, s |-> <<>>]

IsNa(c) == c.k = "nan"

(* a / b as pandas' float division does it: x/0 is inf, 0/0 is NaN.    *)
(* The quotient is kept exact as the pair (n, d), d > 0.               *)
Ratio(a, b) ==
  IF b = 0 THEN (IF a = 0 THEN NaN ELSE Inf)
  ELSE [k |-> "num", n |-> a, d |-> b, s |-> <<>>]

(* ------------------------------------------------------------------ *)
(* pd.to_numeric(errors='coerce') on one cell: a number stays, a text   *)
(* that is a numeral is parsed, every other text becomes NaN.  Nothing  *)
(* is stripped from the text before parsing.                            *)
(* ------------------------------------------------------------------ *)
Digits == {"0", "1", "2", "3", "4", "5", "6", "7", "8", "9"}

DigitVal(ch) ==
  CASE ch = "0" -> 0 [] ch = "1" -> 1 [] ch = "2" -> 2 [] ch = "3" -> 3
    [] ch = "4" -> 4 [] ch = "5" -> 5 [] ch = "6" -> 6 [] ch = "7" -> 7
    [] ch = "8" -> 8 [] ch = "9" -> 9

IsNumeral(t) == Len(t) > 0 /\ \A i \in 1..Len(t) : t[i] \in Digits

RECURSIVE NumeralVal(_)
NumeralVal(t) ==
  IF t = <<>> THEN 0
  ELSE 10 * NumeralVal(SubSeq(t, 1, Len(t) - 1)) + DigitVal(t[Len(t)])

ToNumeric(c) ==
  IF c.k = "num" THEN c
  ELSE IF c.k = "str" /\ IsNumeral(c.s) THEN Num(NumeralVal(c.s))
  ELSE NaN

(* pd.to_datetime(errors='coerce') on one cell: a date stays; the texts *)
(* of the model are not dates and become NaT.                           *)
ToDatetime(c) == IF c.k = "date" THEN c ELSE NaN

(* ------------------------------------------------------------------ *)
(* Frames: a set of column names and a sequence of rows, each row a     *)
(* function from the column names to cells.                             *)
(* ------------------------------------------------------------------ *)
Frame(cols, rows) == [cols |-> cols, rows |-> rows]
NoFrame == Frame({}, <<>>)

Column(f, c) == [i \in 1..Len(f.rows) |-> f.rows[i][c]]

(* df.rename(columns={...}), lines 20-36 *)
Rename(c) ==
  CASE c = "Row Labels" -> "Category"
    [] c = "Sum of sku_po_qty" -> "PO Qty"
    [] c = "Sum of sku_grn_qty" -> "GRN Qty"
    [] c = "Sum of QFR" -> "QFR"
    [] c = "Sum of sku_po_line" -> "PO Lines"
    [] c = "Sum of sku_grn_line" -> "GRN Lines"
    [] c = "Sum of LFR" -> "LFR"
    [] c = "Sum of po_amount" -> "PO Amount"
    [] c = "Sum of grn_amount" -> "GRN Amount"
    [] c = "Sum of Vendor loss A/c" -> "Vendor Loss"
    [] c = "Manufacturer Name" -> "Manufacturer"
    [] c = "WH Name" -> "Warehouse"
    [] c = "Vendor Name" -> "Vendor"
    [] OTHER -> c

RenameFrame(f) ==
  LET newcols == {Rename(c) : c \in f.cols}
      Old(nc) == CHOOSE c \in f.cols : Rename(c) = nc
  IN Frame(newcols,
           [i \in 1..Len(f.rows) |-> [nc \in newcols |-> f.rows[i][Old(nc)]]])

numeric_cols ==
  {"PO Qty", "GRN Qty", "QFR", "LFR", "PO Lines", "GRN Lines",
   "PO Amount", "GRN Amount", "Vendor Loss"}

(* lines 38-41: every numeric column that is present is coerced *)
CoerceNumeric(f) ==
  Frame(f.cols,
        [i \in 1..Len(f.rows) |->
           [x \in f.cols |-> IF x \in numeric_cols THEN ToNumeric(f.rows[i][x])
                                                   ELSE f.rows[i][x]]])

(* line 43: df.dropna(subset=['Category']); KeyError when absent *)
DropNaCategory(f) ==
  LET Keep(r) == ~IsNa(r["Category"])
  IN Frame(f.cols, SelectSeq(f.rows, Keep))

(* lines 45-46 *)
ParseDates(f) ==
  IF "PO Date" \in f.cols
  THEN Frame(f.cols,
             [i \in 1..Len(f.rows) |->
                [x \in f.cols |-> IF x = "PO Date" THEN ToDatetime(f.rows[i][x])
                                                   ELSE f.rows[i][x]]])
  ELSE f

(* ------------------------------------------------------------------ *)
(* The files a user may upload.  Each family fixes the headers of the   *)
(* sheet (as the pivot export names them) and the cells a column may    *)
(* hold; a file is a sheet of at most MaxRows rows.                     *)
(* ------------------------------------------------------------------ *)
Txt(ch) == Str(<<ch>>)

RECURSIVE RowSpace(_)
RowSpace(dom) ==
  IF DOMAIN dom = {} THEN {[x \in {} |-> NaN]}
  ELSE LET c == CHOOSE x \in DOMAIN dom : TRUE
           rest == [x \in DOMAIN dom \ {c} |-> dom[x]]
       IN {(c :> v) @@ r : v \in dom[c], r \in RowSpace(rest)}

Sheets(dom) ==
  {Frame(DOMAIN dom, rows) :
     rows \in UNION {[1..n -> RowSpace(dom)] : n \in 0..MaxRows}}

(* quantities and rates, some of them stored as text *)
FamLoad ==
  ("Row Labels" :> {Txt("A")}) @@
  ("Sum of sku_po_qty" :> {Num(2), Str(<<"5">>)}) @@
  ("Sum of sku_grn_qty" :> {Num(1), Num(3)}) @@
  ("Sum of QFR" :> {Num(1), Str(<<"9", "5", "%">>), Str(<<"9", "5">>)}) @@
  ("Sum of LFR" :> {Num(1)})

(* the categorical filter columns, with missing values *)
FamFilter ==
  ("Row Labels" :> {Txt("A"), Txt("B"), NaN}) @@
  ("Sum of sku_po_qty" :> {Num(2)}) @@
  ("Sum of sku_grn_qty" :> {Num(1)}) @@
  ("Manufacturer Name" :> {Txt("M"), NaN}) @@
  ("Region" :> {Txt("R"), NaN})

(* the keys of the Vendor and Warehouse breakdown *)
FamGroup ==
  ("Row Labels" :> {Txt("A"), Txt("B")}) @@
  ("Vendor Name" :> {Txt("V")}) @@
  ("WH Name" :> {Txt("W"), NaN}) @@
  ("Sum of sku_po_qty" :> {Num(2), Str(<<"x">>)}) @@
  ("Sum of sku_grn_qty" :> {Num(1)}) @@
  ("Sum of QFR" :> {Num(1)}) @@
  ("Sum of LFR" :> {Num(1)})

(* PO dates, some of them unparseable *)
FamDate ==
  ("Row Labels" :> {Txt("A")}) @@
  ("Sum of sku_po_qty" :> {Num(2)}) @@
  ("Sum of sku_grn_qty" :> {Num(1)}) @@
  ("PO Date" :> {Date(1), Date(2), Txt("x")})

(* breakdown keys without the rate columns *)
FamNoRates ==
  ("Row Labels" :> {Txt("A")}) @@
  ("Vendor Name" :> {Txt("V")}) @@
  ("WH Name" :> {Txt("W")}) @@
  ("Sum of sku_po_qty" :> {Num(2)}) @@
  ("Sum of sku_grn_qty" :> {Num(1)})

(* sheets that lack one of the expected columns *)
FamNoCategory ==
  ("Sum of sku_po_qty" :> {Num(2)}) @@ ("Sum of sku_grn_qty" :> {Num(1)})
FamNoPO ==
  ("Row Labels" :> {Txt("A")}) @@ ("Sum of sku_grn_qty" :> {Num(1)})
FamNoGRN ==
  ("Category" :> {Txt("A")}) @@ ("PO Qty" :> {Num(2)})

Families ==
  {FamLoad, FamFilter, FamGroup, FamDate, FamNoRates, FamNoCategory, FamNoPO, FamNoGRN}

(* uploaded_file is None: no sheet at all *)
None == Frame({"<no file>"}, <<>>)
Files == UNION {Sheets(dom) : dom \in Families}

(* ------------------------------------------------------------------ *)
(* Column arithmetic of pandas: sum and mean skip the missing values.   *)
(* ------------------------------------------------------------------ *)
RECURSIVE SumCells(_)
SumCells(cells) ==
  IF cells = <<>> THEN 0
  ELSE (IF Head(cells).k = "num" THEN Head(cells).n ELSE 0) + SumCells(Tail(cells))

RECURSIVE CountCells(_)
CountCells(cells) ==
  IF cells = <<>> THEN 0
  ELSE (IF Head(cells).k = "num" THEN 1 ELSE 0) + CountCells(Tail(cells))

ColumnSum(f, c) == SumCells(Column(f, c))
ColumnMean(f, c) == Ratio(SumCells(Column(f, c)), CountCells(Column(f, c)))

(* ------------------------------------------------------------------ *)
(* Sidebar, lines 48-69                                                 *)
(* ------------------------------------------------------------------ *)
(* df[c].dropna().unique() *)
Options(f, c) == {f.rows[i][c] : i \in 1..Len(f.rows)} \ {NaN}

Days(f) == {x.n : x \in Options(f, "PO Date")}
MinDay(f) == CHOOSE a \in Days(f) : \A b \in Days(f) : a <= b
MaxDay(f) == CHOOSE a \in Days(f) : \A b \in Days(f) : a >= b

(* What st.date_input returns when its value is a sequence: a tuple of  *)
(* the dates picked so far (none or one while the user is picking, two  *)
(* when the range is set).  It is a tuple, never a list.                *)
NoDate == [kind |-> "none", items |-> <<>>]
DateTuple(items) == [kind |-> "tuple", items |-> items]

(* line 67: [min_date, max_date], both NaT when no date parses *)
DefaultDate(f) ==
  IF Days(f) = {} THEN DateTuple(<<NaN, NaN>>)
  ELSE DateTuple(<<Date(MinDay(f)), Date(MaxDay(f))>>)

DateInputs(f) ==
  {DefaultDate(f)}
  \cup {DateTuple(<<Date(p[1]), Date(p[2])>>) :
          p \in {q \in Days(f) \X Days(f) : q[1] <= q[2]}}
  \cup {DateTuple(<<Date(a)>>) : a \in Days(f)}
  \cup {DateTuple(<<>>)}

(* the values the five widgets may return in one run *)
Selections(f) ==
  [selected_categories : SUBSET Options(f, "Category"),
   selected_manu : IF "Manufacturer" \in f.cols THEN SUBSET Options(f, "Manufacturer") ELSE {{}},
   selected_wh : IF "Warehouse" \in f.cols THEN SUBSET Options(f, "Warehouse") ELSE {{}},
   selected_regions : IF "Region" \in f.cols THEN SUBSET Options(f, "Region") ELSE {{}},
   selected_date : IF "PO Date" \in f.cols THEN DateInputs(f) ELSE {NoDate}]

(* every widget left at its default= value *)
Defaults(f) ==
  [selected_categories |-> Options(f, "Category"),
   selected_manu |-> IF "Manufacturer" \in f.cols THEN Options(f, "Manufacturer") ELSE {},
   selected_wh |-> IF "Warehouse" \in f.cols THEN Options(f, "Warehouse") ELSE {},
   selected_regions |-> IF "Region" \in f.cols THEN Options(f, "Region") ELSE {},
   selected_date |-> IF "PO Date" \in f.cols THEN DefaultDate(f) ELSE NoDate]

NoSelection ==
  [selected_categories |-> {}, selected_manu |-> {}, selected_wh |-> {},
   selected_regions |-> {}, selected_date |-> NoDate]

(* ------------------------------------------------------------------ *)
(* Filtering, lines 71-84                                               *)
(* ------------------------------------------------------------------ *)
(* f[f[c].isin(sel)] *)
IsIn(f, c, sel) ==
  LET Keep(r) == r[c] \in sel
  IN Frame(f.cols, SelectSeq(f.rows, Keep))

(* Python truth value of a list *)
Truthy(sel) == sel # {}

(* line 71 *)
CategoryFilter(f, sel) == IsIn(f, "Category", sel)

(* lines 73-74 *)
ManufacturerFilter(f, sel) == IF Truthy(sel) THEN IsIn(f, "Manufacturer", sel) ELSE f

(* lines 76-77 *)
WarehouseFilter(f, sel) == IF Truthy(sel) THEN IsIn(f, "Warehouse", sel) ELSE f

(* lines 79-80 *)
RegionFilter(f, sel) == IF "Region" \in f.cols THEN IsIn(f, "Region", sel) ELSE f

(* isinstance(selected_date, list) *)
IsList(sd) == sd.kind = "list"

(* line 84; a comparison with NaT is False *)
InRange(c, start, end) ==
  /\ c.k = "date" /\ start.k = "date" /\ end.k = "date"
  /\ c.n >= start.n /\ c.n <= end.n

(* lines 82-84 *)
DateFilter(f, sd) ==
  IF sd.kind # "none" /\ Len(sd.items) > 0 /\ IsList(sd) /\ Len(sd.items) = 2
  THEN LET Keep(r) == InRange(r["PO Date"], sd.items[1], sd.items[2])
       IN Frame(f.cols, SelectSeq(f.rows, Keep))
  ELSE f

ApplyFilters(f, sel) ==
  DateFilter(
    RegionFilter(
      WarehouseFilter(
        ManufacturerFilter(CategoryFilter(f, sel.selected_categories), sel.selected_manu),
        sel.selected_wh),
      sel.selected_regions),
    sel.selected_date)

(* ------------------------------------------------------------------ *)
(* KPIs, lines 86-90                                                    *)
(* ------------------------------------------------------------------ *)
FillRate(total_grn, total_po) ==
  IF total_po > 0 THEN Ratio(total_grn * 100, total_po) ELSE Num(0)

AverageOf(f, c) == IF c \in f.cols THEN ColumnMean(f, c) ELSE Num(0)

(* mutant: the KPIs are computed over the loaded table, not the filtered one *)
KPIsOfLoaded(f) ==
  [total_po |-> Num(ColumnSum(df, "PO Qty")),
   total_grn |-> Num(ColumnSum(df, "GRN Qty")),
   fill_rate |-> FillRate(ColumnSum(df, "GRN Qty"), ColumnSum(df, "PO Qty")),
   avg_qfr |-> AverageOf(df, "QFR"),
   avg_lfr |-> AverageOf(df, "LFR")]

ComputeKPIs(f) ==
  [total_po |-> Num(ColumnSum(f, "PO Qty")),
   total_grn |-> Num(ColumnSum(f, "GRN Qty")),
   fill_rate |-> FillRate(ColumnSum(f, "GRN Qty"), ColumnSum(f, "PO Qty")),
   avg_qfr |-> AverageOf(f, "QFR"),
   avg_lfr |-> AverageOf(f, "LFR")]

NoKPIs ==
  [total_po |-> NaN, total_grn |-> NaN, fill_rate |-> NaN, avg_qfr |-> NaN, avg_lfr |-> NaN]

(* ------------------------------------------------------------------ *)
(* Charts, lines 99-120.  Each builder returns the frame it draws and   *)
(* the filtered frame as the statement leaves it.                       *)
(* ------------------------------------------------------------------ *)
RowFillRate(grn, po) ==
  IF grn.k = "num" /\ po.k = "num" THEN Ratio(grn.n * 100, po.n) ELSE NaN

(* lines 100-101: a copy of three columns plus "Fill Rate %" *)
BuildBar(f) ==
  [filtered_df |-> f,
   df_bar |->
     Frame({"Category", "PO Qty", "GRN Qty", "Fill Rate %"},
           [i \in 1..Len(f.rows) |->
              ("Category" :> f.rows[i]["Category"]) @@
              ("PO Qty" :> f.rows[i]["PO Qty"]) @@
              ("GRN Qty" :> f.rows[i]["GRN Qty"]) @@
              ("Fill Rate %" :> RowFillRate(f.rows[i]["GRN Qty"], f.rows[i]["PO Qty"]))])]

(* Series.cumsum(): the running sum skips NaN and leaves NaN in place *)
CumSum(cells) ==
  [i \in 1..Len(cells) |->
     IF IsNa(cells[i]) THEN NaN ELSE Num(SumCells(SubSeq(cells, 1, i)))]

WithCumulative(f) ==
  Frame(f.cols \cup {"Cumulative PO", "Cumulative GRN"},
        [i \in 1..Len(f.rows) |->
           ("Cumulative PO" :> CumSum(Column(f, "PO Qty"))[i]) @@
           ("Cumulative GRN" :> CumSum(Column(f, "GRN Qty"))[i]) @@
           f.rows[i]])

(* mutant: the copy is left out, the new columns land in filtered_df *)
BuildAreaInPlace(f) == [filtered_df |-> WithCumulative(f), df_area |-> WithCumulative(f)]

(* lines 116-118: filtered_df.copy(), then two new columns on the copy *)
BuildArea(f) == [filtered_df |-> f, df_area |-> WithCumulative(f)]

(* ------------------------------------------------------------------ *)
(* Vendor and Warehouse breakdown, lines 122-132.  groupby drops the    *)
(* rows with a missing key; the order of the groups is left out.        *)
(* ------------------------------------------------------------------ *)
GroupKey(r) == <<r["Category"], r["Vendor"], r["Warehouse"]>>

HasKey(r) == \A j \in 1..3 : ~IsNa(GroupKey(r)[j])

GroupKeys(f) == {GroupKey(f.rows[i]) : i \in {j \in 1..Len(f.rows) : HasKey(f.rows[j])}}

(* mutant: the aggregate runs over the ungrouped frame *)
GroupRowsAll(f, key) == f

GroupRows(f, key) ==
  LET Member(r) == GroupKey(r) = key
  IN Frame(f.cols, SelectSeq(f.rows, Member))

(* 'mean', then * 100 (lines 130-131) *)
MeanTimes100(f, c) ==
  LET m == ColumnMean(f, c) IN IF m.k = "num" THEN Ratio(m.n * 100, m.d) ELSE m

GroupBy(f) ==
  {[Category |-> key[1], Vendor |-> key[2], Warehouse |-> key[3],
    PO_Qty |-> Num(ColumnSum(GroupRows(f, key), "PO Qty")),
    GRN_Qty |-> Num(ColumnSum(GroupRows(f, key), "GRN Qty")),
    QFR |-> MeanTimes100(GroupRows(f, key), "QFR"),
    LFR |-> MeanTimes100(GroupRows(f, key), "LFR")] : key \in GroupKeys(f)}

(* ------------------------------------------------------------------ *)
(* Excel download, lines 134-142: the sheet "Filtered" of the frame     *)
(* ------------------------------------------------------------------ *)
to_excel(data) == [sheet_name |-> "Filtered", header |-> data.cols, body |-> data.rows]
NoExcel == [sheet_name |-> "", header |-> {}, body |-> <<>>]

(* ------------------------------------------------------------------ *)
(* Exceptions and the page                                              *)
(* ------------------------------------------------------------------ *)
NoException == [cls |-> "", msg |-> "", at |-> ""]
KeyError(c, at) == [cls |-> "KeyError", msg |-> c, at |-> at]
LibraryError(at) == [cls |-> "RuntimeError", msg |-> "library call failed", at |-> at]
ExportError == [cls |-> "ValueError", msg |-> "kaleido", at |-> "pdf"]

(* the classes derived from Exception *)
ExceptionClasses == {"KeyError", "RuntimeError", "ValueError"}

(* mutant: the outer guard catches KeyError only *)
OuterCatchesKeyError(e) == e.cls = "KeyError"

(* line 155: except Exception *)
OuterCatches(e) == e.cls \in ExceptionClasses

(* mutant: the inner guard catches a missing import only *)
InnerCatchesImportError(e) == e.cls = "ImportError"

(* line 152: except Exception *)
InnerCatches(e) == e.cls \in ExceptionClasses

El(kind, text) == [kind |-> kind, text |-> text]

Metrics ==
  <<El("metric", "PO Qty"), El("metric", "GRN Qty"), El("metric", "Fill Rate"),
    El("metric", "Total QFR"), El("metric", "Total LFR")>>

ChartElements(f) ==
  <<El("subheader", "Fill Rate by Category"), El("chart", "bar"),
    El("subheader", "PO vs GRN by Date")>>
  \o (IF "PO Date" \in f.cols THEN <<El("chart", "date")>> ELSE <<>>)
  \o <<El("subheader", "GRN Distribution by Category"), El("chart", "pie"),
       El("subheader", "Cumulative PO vs GRN"), El("chart", "area")>>

InitWith(files) ==
  /\ uploaded_file \in files
  /\ pc = "idle"
  /\ rerun = FALSE
  /\ df = NoFrame
  /\ selected = NoSelection
  /\ filtered_df = NoFrame
  /\ kpis = NoKPIs
  /\ df_bar = NoFrame
  /\ df_area = NoFrame
  /\ group_df = {}
  /\ excel = NoExcel
  /\ page = <<>>
  /\ raised = NoException

Init == InitWith(Files \cup {None})

(* mutant: the outer guard swallows the exception (except: pass) *)
ThrowSilently(e) == raised' = e /\ pc' = "done" /\ page' = page

(* raise e inside the outer try, lines 14 and 155-156 *)
Throw(e) ==
  /\ raised' = e
  /\ IF OuterCatches(e)
     THEN pc' = "done" /\ page' = Append(page, El("error", e.msg))
     ELSE pc' = "crashed" /\ page' = page

(* A user interaction (or the first page load) runs the script from the *)
(* top in a fresh namespace; line 13 and 157-158.                       *)
StartRun ==
  /\ pc \in {"idle", "done"}
  /\ rerun' = (pc = "done")
  /\ df' = NoFrame /\ selected' = NoSelection /\ filtered_df' = NoFrame
  /\ kpis' = NoKPIs /\ df_bar' = NoFrame /\ df_area' = NoFrame
  /\ group_df' = {} /\ excel' = NoExcel
  /\ raised' = NoException
  /\ IF uploaded_file = None
     THEN pc' = "done" /\ page' = <<El("info", "Upload Excel or CSV file to begin.")>>
     ELSE pc' = "load" /\ page' = <<>>
  /\ UNCHANGED uploaded_file

(* lines 15-46 *)
Load ==
  /\ pc = "load"
  /\ LET renamed == CoerceNumeric(RenameFrame(uploaded_file))
     IN IF "Category" \notin renamed.cols
        THEN /\ Throw(KeyError("Category", "load"))
             /\ df' = renamed
        ELSE /\ df' = ParseDates(DropNaCategory(renamed))
             /\ pc' = "sidebar"
             /\ UNCHANGED <<page, raised>>
  /\ UNCHANGED <<uploaded_file, rerun, selected, filtered_df, kpis, df_bar, df_area,
                 group_df, excel>>

(* lines 48-69 *)
Sidebar ==
  /\ pc = "sidebar"
  /\ \E sel \in Selections(df) : selected' = sel
  /\ pc' = "filter"
  /\ UNCHANGED <<uploaded_file, rerun, df, filtered_df, kpis, df_bar, df_area,
                 group_df, excel, page, raised>>

(* lines 71-84 *)
Filter ==
  /\ pc = "filter"
  /\ filtered_df' = ApplyFilters(df, selected)
  /\ pc' = "kpi"
  /\ UNCHANGED <<uploaded_file, rerun, df, selected, kpis, df_bar, df_area,
                 group_df, excel, page, raised>>

(* lines 86-97 *)
KPIs ==
  /\ pc = "kpi"
  /\ IF "PO Qty" \notin filtered_df.cols
     THEN Throw(KeyError("PO Qty", "kpi")) /\ UNCHANGED kpis
     ELSE IF "GRN Qty" \notin filtered_df.cols
     THEN Throw(KeyError("GRN Qty", "kpi")) /\ UNCHANGED kpis
     ELSE /\ kpis' = ComputeKPIs(filtered_df)
          /\ page' = page \o Metrics
          /\ pc' = "charts"
          /\ UNCHANGED raised
  /\ UNCHANGED <<uploaded_file, rerun, df, selected, filtered_df, df_bar, df_area,
                 group_df, excel>>

(* lines 99-120 *)
Charts ==
  /\ pc = "charts"
  /\ df_bar' = BuildBar(filtered_df).df_bar
  /\ df_area' = BuildArea(BuildBar(filtered_df).filtered_df).df_area
  /\ filtered_df' = BuildArea(BuildBar(filtered_df).filtered_df).filtered_df
  /\ page' = page \o ChartElements(filtered_df)
  /\ pc' = "breakdown"
  /\ UNCHANGED <<uploaded_file, rerun, df, selected, kpis, group_df, excel, raised>>

(* lines 122-132 *)
Breakdown ==
  /\ pc = "breakdown"
  /\ IF "Vendor" \in filtered_df.cols /\ "Warehouse" \in filtered_df.cols
     THEN IF {"QFR", "LFR"} \subseteq filtered_df.cols
          THEN /\ group_df' = GroupBy(filtered_df)
               /\ page' = page \o <<El("subheader", "Vendor and Warehouse Breakdown"),
                                    El("table", "group_df")>>
               /\ pc' = "excel"
               /\ UNCHANGED raised
          ELSE /\ Throw(KeyError("QFR LFR", "breakdown"))
               /\ UNCHANGED group_df
     ELSE /\ page' = Append(page, El("subheader", "Vendor and Warehouse Breakdown"))
          /\ pc' = "excel"
          /\ UNCHANGED <<group_df, raised>>
  /\ UNCHANGED <<uploaded_file, rerun, df, selected, filtered_df, kpis, df_bar, df_area,
                 excel>>

(* lines 134-142 *)
Excel ==
  /\ pc = "excel"
  /\ excel' = to_excel(filtered_df)
  /\ page' = Append(page, El("download", "filtered_data.xlsx"))
  /\ pc' = "pdf"
  /\ UNCHANGED <<uploaded_file, rerun, df, selected, filtered_df, kpis, df_bar, df_area,
                 group_df, raised>>

(* lines 144-153: the export works, or the renderer raises *)
PdfExport ==
  /\ pc = "pdf"
  /\ \E ok \in BOOLEAN :
       IF ok
       THEN /\ page' = page \o <<El("subheader", "Export Bar Chart as PDF"),
                                 El("link", "fill_rate_chart.pdf")>>
            /\ pc' = "done"
            /\ UNCHANGED raised
       ELSE IF InnerCatches(ExportError)
       THEN /\ page' = page \o <<El("subheader", "Export Bar Chart as PDF"),
                                 El("warning", ExportError.msg)>>
            /\ pc' = "done"
            /\ raised' = ExportError
       ELSE /\ raised' = ExportError
            /\ IF OuterCatches(ExportError)
               THEN /\ pc' = "done"
                    /\ page' = page \o <<El("subheader", "Export Bar Chart as PDF"),
                                         El("error", ExportError.msg)>>
               ELSE /\ pc' = "crashed"
                    /\ page' = Append(page, El("subheader", "Export Bar Chart as PDF"))
  /\ UNCHANGED <<uploaded_file, rerun, data_vars>>

(* A library call of the step about to run raises (unreadable file,     *)
(* renderer failure, ...): any statement between lines 15 and 142.      *)
LibraryFailure ==
  /\ pc \in {"load", "sidebar", "filter", "kpi", "charts", "breakdown", "excel"}
  /\ Throw(LibraryError(pc))
  /\ UNCHANGED <<uploaded_file, rerun, data_vars>>

Next ==
  \/ StartRun
  \/ Load
  \/ Sidebar
  \/ Filter
  \/ KPIs
  \/ Charts
  \/ Breakdown
  \/ Excel
  \/ PdfExport
  \/ LibraryFailure

Spec == Init /\ [][Next]_vars

(* the script, once started, runs on to its end *)
RunStep ==
  Load \/ Sidebar \/ Filter \/ KPIs \/ Charts \/ Breakdown \/ Excel \/ PdfExport

(* The runs checked for termination: the sheets whose runs raise by    *)
(* themselves and the small sheets that run through.                    *)
SmallFiles ==
  UNION {Sheets(dom) : dom \in {FamDate, FamNoRates, FamNoCategory, FamNoPO, FamNoGRN}}

FairSpec == InitWith(SmallFiles \cup {None}) /\ [][Next]_vars /\ WF_vars(RunStep)

(* ------------------------------------------------------------------ *)
(* Properties                                                           *)
(* ------------------------------------------------------------------ *)
ShownIn(pg, kind) == \E i \in 1..Len(pg) : pg[i].kind = kind
Shown(kind) == ShownIn(page, kind)
CountShown(kind) == Cardinality({i \in 1..Len(page) : page[i].kind = kind})

(* filtered_df has been computed in this run *)
FilterDone == pc = "kpi" \/ Shown("metric")

RECURSIVE SumOver(_, _, _)
SumOver(S, rows, c) ==
  IF S = {} THEN 0
  ELSE LET i == CHOOSE x \in S : TRUE
       IN (IF rows[i][c].k = "num" THEN rows[i][c].n ELSE 0) + SumOver(S \ {i}, rows, c)

NumbersIn(rows, c) == {i \in 1..Len(rows) : rows[i][c].k = "num"}

(* the rows of table f that the selections sel let through *)
ExpectedRows(f, sel) ==
  LET Pass(r) ==
        /\ r["Category"] \in sel.selected_categories
        /\ sel.selected_manu = {} \/ r["Manufacturer"] \in sel.selected_manu
        /\ sel.selected_wh = {} \/ r["Warehouse"] \in sel.selected_wh
        /\ "Region" \in f.cols => r["Region"] \in sel.selected_regions
  IN SelectSeq(f.rows, Pass)

ExpectedMean(cols, rows, c) ==
  IF c \notin cols THEN Num(0)
  ELSE IF NumbersIn(rows, c) = {} THEN NaN
  ELSE [k |-> "num", n |-> SumOver(NumbersIn(rows, c), rows, c),
        d |-> Cardinality(NumbersIn(rows, c)), s |-> <<>>]

ExpectedKPIs(cols, rows) ==
  LET po == SumOver(1..Len(rows), rows, "PO Qty")
      grn == SumOver(1..Len(rows), rows, "GRN Qty")
  IN [total_po |-> Num(po),
      total_grn |-> Num(grn),
      fill_rate |-> IF po > 0 THEN [k |-> "num", n |-> grn * 100, d |-> po, s |-> <<>>]
                    ELSE Num(0),
      avg_qfr |-> ExpectedMean(cols, rows, "QFR"),
      avg_lfr |-> ExpectedMean(cols, rows, "LFR")]

(* C1: every row of the filtered table has its Category, Manufacturer,  *)
(* Warehouse and Region among the selected values of the column (for    *)
(* the columns that are present), so an empty selection leaves no rows. *)
C1_FilteredRowsAreSelected ==
  \A i \in 1..Len(filtered_df.rows) :
    LET r == filtered_df.rows[i]
    IN /\ r["Category"] \in selected.selected_categories
       /\ "Manufacturer" \in filtered_df.cols => r["Manufacturer"] \in selected.selected_manu
       /\ "Warehouse" \in filtered_df.cols => r["Warehouse"] \in selected.selected_wh
       /\ "Region" \in filtered_df.cols => r["Region"] \in selected.selected_regions

(* C2: a table that lacks Category, PO Qty or GRN Qty after renaming    *)
(* never gets a metric, chart, table, download or link on the page, and *)
(* its run ends with an error message.                                  *)
LacksExpected ==
  /\ uploaded_file # None
  /\ ~({"Category", "PO Qty", "GRN Qty"} \subseteq {Rename(c) : c \in uploaded_file.cols})

C2_MissingColumnHalts ==
  LacksExpected =>
    /\ \A i \in 1..Len(page) :
         page[i].kind \notin {"metric", "chart", "table", "download", "link"}
    /\ pc \in {"done", "crashed"} => Shown("error")

C2_Witness ==
  /\ LacksExpected
  /\ pc = "done"
  /\ raised = KeyError("GRN Qty", "kpi")
  /\ page = <<El("error", "GRN Qty")>>

(* C3: when the PDF export raises, the step only appends its subheader  *)
(* and a warning: what was rendered before stays, no table changes, and *)
(* no error message is shown.                                           *)
C3_PdfFailureOnlyWarns ==
  [][(pc = "pdf" /\ raised' = ExportError) =>
       /\ pc' = "done"
       /\ Len(page') = Len(page) + 2
       /\ SubSeq(page', 1, Len(page)) = page
       /\ page'[Len(page')] = El("warning", ExportError.msg)
       /\ ~ShownIn(page', "error")
       /\ SubSeq(page', 1, 5) = Metrics
       /\ ShownIn(page', "chart") /\ ShownIn(page', "download")
       /\ UNCHANGED data_vars]_vars

C3_Witness ==
  /\ pc = "done"
  /\ raised = ExportError
  /\ Shown("warning") /\ Shown("table") /\ Shown("metric")
  /\ Len(filtered_df.rows) > 0

(* what a finished run that raised outside the PDF export shows *)
C4_Caught ==
  /\ pc # "crashed"
  /\ (pc = "done" /\ raised # NoException /\ raised.at # "pdf") =>
       /\ CountShown("error") = 1
       /\ page[Len(page)] = El("error", raised.msg)

(* C4: with a file uploaded, no exception leaves the script: a run that *)
(* raised outside the PDF export ends with exactly one error message,   *)
(* the last element of the page, carrying the exception text; and every *)
(* started run reaches its end.                                         *)
C4_OuterGuard == []C4_Caught /\ ((pc = "load") ~> (pc = "done"))

C4_Witness ==
  /\ pc = "done"
  /\ raised = LibraryError("charts")
  /\ Shown("metric")
  /\ page[Len(page)].kind = "error"

(* C5: in every run, first or later, the filtered table is the rows of  *)
(* the loaded table that the current selections let through, and the    *)
(* KPIs are the sums and means over exactly those rows.                 *)
C5_ResultIsFunctionOfInputs ==
  /\ FilterDone =>
       /\ filtered_df.cols = df.cols
       /\ filtered_df.rows = ExpectedRows(df, selected)
  /\ Shown("metric") => kpis = ExpectedKPIs(df.cols, ExpectedRows(df, selected))

C5_Witness ==
  /\ rerun
  /\ pc = "done"
  /\ raised = NoException
  /\ Shown("metric")
  /\ Len(filtered_df.rows) > 0
  /\ Len(filtered_df.rows) < Len(df.rows)

(* C6: every group of the breakdown carries the sums of PO Qty and GRN  *)
(* Qty over exactly the filtered rows with its Category, Vendor and     *)
(* Warehouse, and every filtered row with a complete key has its group. *)
RowsOfGroup(g) ==
  {i \in 1..Len(filtered_df.rows) :
     /\ filtered_df.rows[i]["Category"] = g.Category
     /\ filtered_df.rows[i]["Vendor"] = g.Vendor
     /\ filtered_df.rows[i]["Warehouse"] = g.Warehouse}

C6_GroupSums ==
  /\ \A g \in group_df :
       /\ RowsOfGroup(g) # {}
       /\ g.PO_Qty = Num(SumOver(RowsOfGroup(g), filtered_df.rows, "PO Qty"))
       /\ g.GRN_Qty = Num(SumOver(RowsOfGroup(g), filtered_df.rows, "GRN Qty"))
  /\ Shown("table") =>
       \A i \in 1..Len(filtered_df.rows) :
         LET r == filtered_df.rows[i]
         IN (~IsNa(r["Category"]) /\ ~IsNa(r["Vendor"]) /\ ~IsNa(r["Warehouse"])) =>
              \E g \in group_df : i \in RowsOfGroup(g)

C6_Witness ==
  /\ Shown("table")
  /\ \E g \in group_df : Cardinality(RowsOfGroup(g)) = 2 /\ g.PO_Qty = Num(2)

(* C7: a numeric cell stored as a numeral followed by a percent sign is *)
(* loaded as the number before the sign.                                *)
IsPercentText(c) ==
  /\ c.k = "str"
  /\ Len(c.s) >= 2
  /\ c.s[Len(c.s)] = "%"
  /\ IsNumeral(SubSeq(c.s, 1, Len(c.s) - 1))

C7_PercentTextIsParsed ==
  (pc = "sidebar" /\ Len(df.rows) = Len(uploaded_file.rows)) =>
    \A i \in 1..Len(df.rows) :
      \A c \in {x \in uploaded_file.cols : Rename(x) \in numeric_cols} :
        IsPercentText(uploaded_file.rows[i][c]) =>
          df.rows[i][Rename(c)] =
            Num(NumeralVal(SubSeq(uploaded_file.rows[i][c].s, 1,
                                  Len(uploaded_file.rows[i][c].s) - 1)))

(* C8: the download is the sheet of the filtered table: the columns of  *)
(* the loaded table and the rows the KPIs were computed over; drawing   *)
(* the charts leaves the filtered table as the filters made it.         *)
C8_ExcelIsFilteredTable ==
  /\ Shown("chart") =>
       /\ filtered_df = ApplyFilters(df, selected)
       /\ df_bar.cols = {"Category", "PO Qty", "GRN Qty", "Fill Rate %"}
       /\ df_area.cols = df.cols \cup {"Cumulative PO", "Cumulative GRN"}
  /\ Shown("download") =>
       /\ excel.sheet_name = "Filtered"
       /\ excel.header = df.cols
       /\ excel.body = ApplyFilters(df, selected).rows
       /\ kpis = ComputeKPIs(Frame(excel.header, excel.body))

C8_Witness ==
  /\ Shown("download")
  /\ Len(excel.body) > 0
  /\ Len(excel.body) < Len(df.rows)
  /\ Len(df_area.rows) = Len(excel.body)
  /\ "Cumulative PO" \in df_area.cols

(* C9: with a PO Date column and a range of two dates selected, every   *)
(* row of the filtered table has its PO Date inside the range.          *)
C9_FilteredRowsAreInRange ==
  \A i \in 1..Len(filtered_df.rows) :
    ( /\ "PO Date" \in filtered_df.cols
      /\ Len(selected.selected_date.items) = 2
      /\ selected.selected_date.items[1].k = "date"
      /\ selected.selected_date.items[2].k = "date" ) =>
      InRange(filtered_df.rows[i]["PO Date"],
              selected.selected_date.items[1], selected.selected_date.items[2])

(* C10: with every widget at its default the filtered table is the      *)
(* loaded table (rows with a Category), and the Fill Rate KPI is total  *)
(* GRN Qty / total PO Qty x 100 over all of it (0 when total PO is 0).  *)
C10_DefaultsKeepEveryRow ==
  (FilterDone /\ selected = Defaults(df)) =>
    /\ filtered_df.rows = df.rows
    /\ Shown("metric") =>
         kpis.fill_rate = ExpectedKPIs(df.cols, df.rows).fill_rate

====
